---------------------------- MODULE Spec2Model ----------------------------
(***************************************************************************)
(* Model of reminder_sms.py: the date guardrails, the message builder and  *)
(* one invocation of main() under the __main__ exception handler.          *)
(*                                                                         *)
(* Text is modelled as a sequence of pieces.  A piece is either one        *)
(* character (mode names, dates, the dashboard link, the newline) or one   *)
(* literal of the source, which never contains a newline.                  *)
(***************************************************************************)
EXTENDS Integers, Sequences, FiniteSets, TLC

(***************************************************************************)
(* Bounds of the model.                                                    *)
(***************************************************************************)
\* Calendar years 2023..MaxYear are enumerated (2023 common, 2024 leap).
MaxYear == 2024
\* At most this many of the four required variables are unset or empty.
MaxMissing == 1
\* Dashboard links are texts over LinkChars of at most this length.
MaxLinkLen == 1

(***************************************************************************)
(* Text helpers: str.title, "%0Nd" formatting, "\n".join.                  *)
(***************************************************************************)
NL == "\n"

LowerCase == <<"a","b","c","d","e","f","g","h","i","j","k","l","m",
               "n","o","p","q","r","s","t","u","v","w","x","y","z">>
UpperCase == <<"A","B","C","D","E","F","G","H","I","J","K","L","M",
               "N","O","P","Q","R","S","T","U","V","W","X","Y","Z">>

Range(s) == { s[i] : i \in DOMAIN s }

IndexOf(s, c) == CHOOSE i \in DOMAIN s : s[i] = c

IsCased(c) == c \in Range(LowerCase) \cup Range(UpperCase)

upper(c) == IF c \in Range(LowerCase) THEN UpperCase[IndexOf(LowerCase, c)] ELSE c

lower(c) == IF c \in Range(UpperCase) THEN LowerCase[IndexOf(UpperCase, c)] ELSE c

\* str.title(): a cased character is upper-cased when the previous character
\* is not cased, lower-cased otherwise.
RECURSIVE TitleFrom(_, _)
TitleFrom(s, prevCased) ==
    IF s = <<>> THEN <<>>
    ELSE LET c == Head(s)
         IN  IF IsCased(c)
             THEN <<IF prevCased THEN lower(c) ELSE upper(c)>> \o TitleFrom(Tail(s), TRUE)
             ELSE <<c>> \o TitleFrom(Tail(s), FALSE)

title(s) == TitleFrom(s, FALSE)

Digits == <<"0","1","2","3","4","5","6","7","8","9">>

\* "%0<width>d" % n for n >= 0: decimal digits, zero-padded on the left.
RECURSIVE ZeroPad(_, _)
ZeroPad(n, width) ==
    IF n < 10 /\ width <= 1 THEN <<Digits[n + 1]>>
    ELSE ZeroPad(n \div 10, width - 1) \o <<Digits[(n % 10) + 1]>>

\* sep.join(lines)
RECURSIVE join(_, _)
join(sep, lines) ==
    IF lines = <<>> THEN <<>>
    ELSE IF Len(lines) = 1 THEN lines[1]
    ELSE lines[1] \o <<sep>> \o join(sep, Tail(lines))

(***************************************************************************)
(* calendar / datetime library functions used by the program.              *)
(***************************************************************************)
mdays == <<31, 28, 31, 30, 31, 30, 31, 31, 30, 31, 30, 31>>

isleap(year) == year % 4 = 0 /\ (year % 100 # 0 \/ year % 400 = 0)

days_before_year(year) ==
    LET y == year - 1 IN y * 365 + (y \div 4) - (y \div 100) + (y \div 400)

days_in_month(year, month) ==
    mdays[month] + (IF month = 2 /\ isleap(year) THEN 1 ELSE 0)

RECURSIVE days_before_month(_, _)
days_before_month(year, month) ==
    IF month = 1 THEN 0
    ELSE days_before_month(year, month - 1) + days_in_month(year, month - 1)

date(year, month, day) == [year |-> year, month |-> month, day |-> day]

toordinal(d) == days_before_year(d.year) + days_before_month(d.year, d.month) + d.day

\* (a - b).days
days_between(a, b) == toordinal(a) - toordinal(b)

\* calendar.weekday: Monday is 0.
weekday(year, month, day) == (toordinal(date(year, month, day)) + 6) % 7

\* calendar.monthrange: <<weekday of the first day, number of days>>.
monthrange(year, month) == <<weekday(year, month, 1), days_in_month(year, month)>>

\* date.isoformat(): "%04d-%02d-%02d".
isoformat(d) ==
    ZeroPad(d.year, 4) \o <<"-">> \o ZeroPad(d.month, 2) \o <<"-">> \o ZeroPad(d.day, 2)


\* date.fromisoformat(s), "YYYY-MM-DD": <<d>> on success, <<>> for ValueError.
IsDigit(c) == c \in Range(Digits)

DigitVal(c) == IndexOf(Digits, c) - 1

RECURSIVE Number(_)
Number(s) == IF s = <<>> THEN 0 ELSE Number(SubSeq(s, 1, Len(s) - 1)) * 10 + DigitVal(s[Len(s)])

fromisoformat(s) ==
    IF /\ Len(s) = 10
       /\ s[5] = "-" /\ s[8] = "-"
       /\ \A i \in {1, 2, 3, 4, 6, 7, 9, 10} : IsDigit(s[i])
    THEN LET year  == Number(SubSeq(s, 1, 4))
             month == Number(SubSeq(s, 6, 7))
             day   == Number(SubSeq(s, 9, 10))
         IN  IF /\ 1 <= year /\ 1 <= month /\ month <= 12
                /\ 1 <= day /\ day <= days_in_month(year, month)
             THEN <<date(year, month, day)>>
             ELSE <<>>
    ELSE <<>>

(***************************************************************************)
(* reminder_sms.py: configuration and pure functions.                      *)
(***************************************************************************)
WEEKLY    == <<"w","e","e","k","l","y">>
MONTHLY   == <<"m","o","n","t","h","l","y">>
QUARTERLY == <<"q","u","a","r","t","e","r","l","y">>

\* choices=[...] of the mode argument
choices == {WEEKLY, MONTHLY, QUARTERLY}

\* Literals of the source; glyphs are written as ASCII names.
HeaderOpen  == "<calendar> Strategic Reminder ("
HeaderClose == ") <em-dash> "
DashboardPrefix == "<link> Dashboard: "
WeeklyLines == << <<"<check> Review progress and update key actions.">>,
                  <<"<magnifier> Check overdue & upcoming tasks.">> >>
MonthlyLines == << <<"<chart> Prepare monthly wrap-up and finalize metrics.">>,
                   <<"<pin> Ensure sustainability & margin reviews are complete.">> >>
QuarterlyLines == << <<"<trend> Quarterly review <em-dash> assess goals vs outcomes.">>,
                     <<"<rocket> Plan adjustments for next quarter.">> >>

FallbackDashboard == <<"https://tinyurl.com/wcpaz">>

\* os.environ.get(name, default) on an optional value: <<>> is "not set".
environ_get(opt, default) == IF opt = <<>> THEN default ELSE opt[1]

\* Mutant: the header carries the mode as given, not title-cased.
build_message_NoTitle(mode, today, excel_url) ==
    LET header == <<HeaderOpen>> \o mode \o <<HeaderClose>> \o isoformat(today)
        lines0 == <<header>>
        lines1 == IF mode = WEEKLY THEN lines0 \o WeeklyLines
                  ELSE IF mode = MONTHLY THEN lines0 \o MonthlyLines
                  ELSE IF mode = QUARTERLY THEN lines0 \o QuarterlyLines
                  ELSE lines0
        lines2 == Append(lines1, <<DashboardPrefix>> \o excel_url)
    IN  join(NL, lines2)

build_message(mode, today, excel_url) ==
    LET header == <<HeaderOpen>> \o title(mode) \o <<HeaderClose>> \o isoformat(today)
        lines0 == <<header>>
        lines1 == IF mode = WEEKLY THEN lines0 \o WeeklyLines
                  ELSE IF mode = MONTHLY THEN lines0 \o MonthlyLines
                  ELSE IF mode = QUARTERLY THEN lines0 \o QuarterlyLines
                  ELSE lines0
        lines2 == Append(lines1, <<DashboardPrefix>> \o excel_url)
    IN  join(NL, lines2)

\* Mutant: the day two before the last day of the month.
is_two_days_TwoBefore(today) ==
    LET last_day == monthrange(today.year, today.month)[2]
    IN  today.day = last_day - 2

\* Mutant: every day from the last day minus one on.
is_two_days_OrLater(today) ==
    LET last_day == monthrange(today.year, today.month)[2]
    IN  today.day >= last_day - 1

is_two_days_before_month_end(today) ==
    LET last_day == monthrange(today.year, today.month)[2]
    IN  today.day = last_day - 1

\* Mutant: the end of today's month, not of the quarter's last month.
is_one_week_MonthEnd(today) ==
    LET q_month  == today.month
        last_day == monthrange(today.year, q_month)[2]
        q_end    == date(today.year, q_month, last_day)
    IN  days_between(q_end, today) = 7

is_one_week_before_quarter_end(today) ==
    LET q_month  == (((today.month - 1) \div 3) + 1) * 3
        last_day == monthrange(today.year, q_month)[2]
        q_end    == date(today.year, q_month, last_day)
    IN  days_between(q_end, today) = 7

\* `not val` for an optional text: holds for None and for the empty text.
Falsy(opt) == IF opt = <<>> THEN TRUE ELSE opt[1] = <<>>

(***************************************************************************)
(* Inputs.                                                                 *)
(***************************************************************************)
Years == 2023..MaxYear

Dates == { dd \in { date(y, m, d) : y \in Years, m \in 1..12, d \in 1..31 } :
               dd.day <= days_in_month(dd.year, dd.month) }

\* Optional values: <<>> is None / not set, <<v>> is the value v.
Some(v) == <<v>>

EnvNames == <<"TWILIO_ACCOUNT_SID", "TWILIO_AUTH_TOKEN", "TWILIO_FROM", "TO_PHONE">>

EnvValue(name) ==
    CASE name = "TWILIO_ACCOUNT_SID" -> <<"AC0001">>
      [] name = "TWILIO_AUTH_TOKEN"  -> <<"secret">>
      [] name = "TWILIO_FROM"        -> <<"+15550001">>
      [] name = "TO_PHONE"           -> <<"+15550002">>

\* Environments: every required variable is unset, empty or set to its value.
Environments ==
    { e \in [ Range(EnvNames) -> {<<>>, Some(<<>>)} \cup { Some(EnvValue(n)) : n \in Range(EnvNames) } ] :
        /\ \A n \in Range(EnvNames) : Falsy(e[n]) \/ e[n] = Some(EnvValue(n))
        /\ Cardinality({ n \in Range(EnvNames) : Falsy(e[n]) }) <= MaxMissing }

RECURSIVE TextsUpTo(_, _)
TextsUpTo(chars, n) ==
    IF n = 0 THEN { <<>> }
    ELSE TextsUpTo(chars, n - 1) \cup { Append(t, c) : t \in TextsUpTo(chars, n - 1), c \in chars }

\* DASHBOARD_LINK: not set, or set to a text (the empty one included).
DashboardLinks == { <<>> } \cup { Some(t) : t \in TextsUpTo({"u"}, MaxLinkLen) }

\* Arguments of --today that are no date.
BadDates == { <<"s","o","o","n">>,
              <<"2","0","2","3","-","0","2","-","2","9">>,
              <<"2","0","2","4","-","1","3","-","0","1">> }

\* A mode that argparse rejects.
DAILY == <<"d","a","i","l","y">>

\* The system date of the runs whose --today is enumerated: read only when
\* --today is the empty text.
FixedClock == date(2023, 1, 1)

(***************************************************************************)
(* State.                                                                  *)
(***************************************************************************)
VARIABLES
    argv_mode,      \* positional argument "mode"
    argv_today,     \* --today: <<>> or <<text>>
    clock,          \* the system date, dt.date.today()
    environ,        \* the four required variables
    DASHBOARD_LINK, \* the optional variable
    pc,             \* position in main(): parse, guard, build, send, done
    today,          \* main's local: <<>> before it is set
    body,           \* main's local: <<>> before it is built
    got,            \* values need_env has returned to send_sms so far
    created,        \* arguments of the calls of client.messages.create
    stdout,         \* lines printed to standard output
    stderr,         \* lines printed to standard error
    exit_code,      \* <<>> while running, <<n>> once the process has ended
    period_end,     \* scheduler: <<>> or <<last day of the period>>
    history,        \* scheduler: days on which messages.create was called
    call,           \* a call of one pure function: [fn, ...arguments]
    ret             \* its result: <<>> before the call, <<value>> after

vars == <<argv_mode, argv_today, clock, environ, DASHBOARD_LINK, pc, today, body,
          got, created, stdout, stderr, exit_code, period_end, history, call, ret>>

inputs == <<argv_mode, argv_today, environ, DASHBOARD_LINK>>

pure == <<call, ret>>

\* DEFAULT_DASHBOARD = os.environ.get("DASHBOARD_LINK", "https://tinyurl.com/wcpaz")
DEFAULT_DASHBOARD == environ_get(DASHBOARD_LINK, FallbackDashboard)

NoCall == [fn |-> "none"]

\* A fresh process: nothing computed, nothing printed.
Fresh ==
    /\ pc = "parse"
    /\ today = <<>>
    /\ body = <<>>
    /\ got = <<>>
    /\ created = <<>>
    /\ stdout = <<>>
    /\ stderr = <<>>
    /\ exit_code = <<>>

Init ==
    /\ \/ /\ argv_mode \in choices
          /\ \/ argv_today = <<>> /\ clock \in { d \in Dates : d.year = MaxYear }
             \/ argv_today \in { Some(isoformat(d)) : d \in Dates } /\ clock = FixedClock
       \/ /\ argv_mode \in choices
          /\ argv_today \in { Some(t) : t \in BadDates } \cup { Some(<<>>) }
          /\ clock = FixedClock
       \/ /\ argv_mode = DAILY
          /\ argv_today = <<>>
          /\ clock = FixedClock
    /\ environ \in Environments
    /\ DASHBOARD_LINK \in DashboardLinks
    /\ Fresh
    /\ period_end = <<>>
    /\ history = <<>>
    /\ call = NoCall
    /\ ret = <<>>

(***************************************************************************)
(* main() under the __main__ handler.                                      *)
(***************************************************************************)
\* Mutant: the handler prints the error and ends with status 0.
Fail_ExitZero(message) ==
    /\ stderr' = Append(stderr, <<"ERROR: ">> \o message)
    /\ exit_code' = Some(0)
    /\ pc' = "done"

\* The process ends: print(f"ERROR: {e}", file=sys.stderr); sys.exit(1)
Fail(message) ==
    /\ stderr' = Append(stderr, <<"ERROR: ">> \o message)
    /\ exit_code' = Some(1)
    /\ pc' = "done"

\* parse_args() rejects the mode: usage on stderr, SystemExit(2), which the
\* `except Exception` handler does not catch.
ArgparseError ==
    /\ pc = "parse"
    /\ argv_mode \notin choices
    /\ stderr' = Append(stderr, <<"usage: invalid choice">>)
    /\ exit_code' = Some(2)
    /\ pc' = "done"
    /\ UNCHANGED <<inputs, clock, today, body, got, created, stdout, period_end, history, pure>>

\* dt.date.fromisoformat(args.today) raises ValueError.
TodayError ==
    /\ pc = "parse"
    /\ argv_mode \in choices
    /\ ~Falsy(argv_today)
    /\ fromisoformat(argv_today[1]) = <<>>
    /\ Fail(<<"ValueError: ">> \o argv_today[1])
    /\ UNCHANGED <<inputs, clock, today, body, got, created, stdout, period_end, history, pure>>

\* today = dt.date.fromisoformat(args.today) if args.today else dt.date.today()
ParseArgs ==
    /\ pc = "parse"
    /\ argv_mode \in choices
    /\ IF ~Falsy(argv_today)
       THEN /\ fromisoformat(argv_today[1]) # <<>>
            /\ today' = fromisoformat(argv_today[1])
       ELSE today' = Some(clock)
    /\ pc' = "guard"
    /\ UNCHANGED <<inputs, clock, body, got, created, stdout, stderr, exit_code,
                   period_end, history, pure>>

\* main returns after printing the notice: the process ends with status 0.
Skip(notice) ==
    /\ stdout' = Append(stdout, <<notice>>)
    /\ exit_code' = Some(0)
    /\ pc' = "done"
    /\ UNCHANGED <<inputs, clock, today, body, got, created, stderr, period_end, history, pure>>

\* Mutant: the month-end guardrail applies to every mode.
MonthlySkip_AnyMode ==
    /\ pc = "guard"
    /\ ~is_two_days_before_month_end(today[1])
    /\ Skip("Not 2 days before month-end; skipping.")

MonthlySkip ==
    /\ pc = "guard"
    /\ argv_mode = MONTHLY /\ ~is_two_days_before_month_end(today[1])
    /\ Skip("Not 2 days before month-end; skipping.")

QuarterlySkip ==
    /\ pc = "guard"
    /\ ~(argv_mode = MONTHLY /\ ~is_two_days_before_month_end(today[1]))
    /\ argv_mode = QUARTERLY /\ ~is_one_week_before_quarter_end(today[1])
    /\ Skip("Not 1 week before quarter-end; skipping.")

\* Mutant: the quarterly guardrail is not consulted.
GuardPass_NoQuarterly ==
    /\ pc = "guard"
    /\ ~(argv_mode = MONTHLY /\ ~is_two_days_before_month_end(today[1]))
    /\ pc' = "build"
    /\ UNCHANGED <<inputs, clock, today, body, got, created, stdout, stderr, exit_code,
                   period_end, history, pure>>

GuardPass ==
    /\ pc = "guard"
    /\ ~(argv_mode = MONTHLY /\ ~is_two_days_before_month_end(today[1]))
    /\ ~(argv_mode = QUARTERLY /\ ~is_one_week_before_quarter_end(today[1]))
    /\ pc' = "build"
    /\ UNCHANGED <<inputs, clock, today, body, got, created, stdout, stderr, exit_code,
                   period_end, history, pure>>

\* Mutant: the message is built for the system date, not the effective date.
BuildMessage_UsesClock ==
    /\ pc = "build"
    /\ body' = Some(build_message(argv_mode, clock, DEFAULT_DASHBOARD))
    /\ pc' = "send"
    /\ UNCHANGED <<inputs, clock, today, got, created, stdout, stderr, exit_code,
                   period_end, history, pure>>

\* body = build_message(args.mode, today, DEFAULT_DASHBOARD); send_sms(body)
BuildMessage ==
    /\ pc = "build"
    /\ body' = Some(build_message(argv_mode, today[1], DEFAULT_DASHBOARD))
    /\ pc' = "send"
    /\ UNCHANGED <<inputs, clock, today, got, created, stdout, stderr, exit_code,
                   period_end, history, pure>>

\* os.getenv(name)
getenv(name) == environ[name]

\* Mutant: need_env returns whatever os.getenv returned.
NeedEnv_Unchecked ==
    /\ pc = "send"
    /\ Len(got) < Len(EnvNames)
    /\ LET name == EnvNames[Len(got) + 1]
           val  == getenv(name)
       IN  got' = Append(got, environ_get(val, <<>>))
    /\ UNCHANGED <<inputs, clock, today, body, pc, created, stdout, stderr, exit_code,
                   period_end, history, pure>>

\* send_sms: the next need_env(name) returns the value.
NeedEnv ==
    /\ pc = "send"
    /\ Len(got) < Len(EnvNames)
    /\ LET name == EnvNames[Len(got) + 1]
           val  == getenv(name)
       IN  /\ ~Falsy(val)
           /\ got' = Append(got, val[1])
    /\ UNCHANGED <<inputs, clock, today, body, pc, created, stdout, stderr, exit_code,
                   period_end, history, pure>>

\* send_sms: the next need_env(name) raises RuntimeError.
NeedEnvMissing ==
    /\ pc = "send"
    /\ Len(got) < Len(EnvNames)
    /\ LET name == EnvNames[Len(got) + 1]
           val  == getenv(name)
       IN  /\ Falsy(val)
           /\ Fail(<<"Missing environment variable: ", name>>)
    /\ UNCHANGED <<inputs, clock, today, body, got, created, stdout, period_end, history, pure>>

\* client.messages.create(to=to_phone, from_=from_phone, body=body)
CreateArgs ==
    [sid |-> got[1], token |-> got[2], from_ |-> got[3], to |-> got[4], body |-> body[1]]

\* The call returns a message: print(f"Sent SMS SID: {msg.sid}"), main returns.
CreateSent ==
    /\ pc = "send"
    /\ Len(got) = Len(EnvNames)
    /\ created' = Append(created, CreateArgs)
    /\ history' = Append(history, [day |-> today[1], sent |-> TRUE])
    /\ stdout' = Append(stdout, <<"Sent SMS SID: ", "SM0001">>)
    /\ exit_code' = Some(0)
    /\ pc' = "done"
    /\ UNCHANGED <<inputs, clock, today, body, got, stderr, period_end, pure>>

\* The call raises (network, authentication, recipient).
CreateFailed ==
    /\ pc = "send"
    /\ Len(got) = Len(EnvNames)
    /\ created' = Append(created, CreateArgs)
    /\ history' = Append(history, [day |-> today[1], sent |-> FALSE])
    /\ Fail(<<"Unable to create record">>)
    /\ UNCHANGED <<inputs, clock, today, body, got, stdout, period_end, pure>>

Invocation ==
    \/ ArgparseError
    \/ TodayError
    \/ ParseArgs
    \/ MonthlySkip
    \/ QuarterlySkip
    \/ GuardPass
    \/ BuildMessage
    \/ NeedEnv
    \/ NeedEnvMissing
    \/ CreateSent
    \/ CreateFailed

Next == Invocation

Spec == Init /\ [][Next]_vars

(***************************************************************************)
(* The scheduler of section 1: the program is started once on every day of *)
(* a calendar month (monthly mode) or quarter (quarterly mode), without    *)
(* --today, each time as a new process in the same environment.            *)
(***************************************************************************)
tomorrow(d) ==
    IF d.day < days_in_month(d.year, d.month) THEN date(d.year, d.month, d.day + 1)
    ELSE IF d.month < 12 THEN date(d.year, d.month + 1, 1)
    ELSE date(d.year + 1, 1, 1)

SchedInit ==
    /\ \/ /\ argv_mode = MONTHLY
          /\ \E y \in Years, m \in 1..12 :
                /\ clock = date(y, m, 1)
                /\ period_end = Some(date(y, m, days_in_month(y, m)))
       \/ /\ argv_mode = QUARTERLY
          /\ \E y \in Years, q \in 1..4 :
                /\ clock = date(y, 3 * q - 2, 1)
                /\ period_end = Some(date(y, 3 * q, days_in_month(y, 3 * q)))
    /\ argv_today = <<>>
    /\ environ \in Environments
    /\ DASHBOARD_LINK \in DashboardLinks
    /\ Fresh
    /\ history = <<>>
    /\ call = NoCall
    /\ ret = <<>>

\* The run of one day has ended; the next day's run starts.
NextDay ==
    /\ pc = "done"
    /\ period_end # <<>>
    /\ clock # period_end[1]
    /\ clock' = tomorrow(clock)
    /\ pc' = "parse"
    /\ today' = <<>>
    /\ body' = <<>>
    /\ got' = <<>>
    /\ created' = <<>>
    /\ stdout' = <<>>
    /\ stderr' = <<>>
    /\ exit_code' = <<>>
    /\ UNCHANGED <<inputs, period_end, history, pure>>

SchedNext ==
    \/ ParseArgs
    \/ MonthlySkip
    \/ QuarterlySkip
    \/ GuardPass
    \/ BuildMessage
    \/ NeedEnv
    \/ NeedEnvMissing
    \/ CreateSent
    \/ CreateFailed
    \/ NextDay

SchedSpec == SchedInit /\ [][SchedNext]_vars

(***************************************************************************)
(* The pure functions, each applied to one enumerated argument list.       *)
(***************************************************************************)
\* Years with the century rules of the calendar and a three-digit year.
PureYears == Years \cup {999, 1900, 2000}

PureDates == { dd \in { date(y, m, d) : y \in PureYears, m \in 1..12, d \in 1..31 } :
                   dd.day <= days_in_month(dd.year, dd.month) }

PureLinks == TextsUpTo({"u", NL}, MaxLinkLen + 1)

Calls ==
    { [fn |-> "is_two_days_before_month_end", today |-> d] : d \in PureDates }
    \cup { [fn |-> "is_one_week_before_quarter_end", today |-> d] : d \in PureDates }
    \cup { [fn |-> "build_message", mode |-> m, today |-> d, excel_url |-> u] :
               m \in choices, d \in PureDates, u \in PureLinks }

PureInit ==
    /\ call \in Calls
    /\ ret = <<>>
    /\ argv_mode = WEEKLY
    /\ argv_today = <<>>
    /\ clock = FixedClock
    /\ environ = [ n \in Range(EnvNames) |-> <<>> ]
    /\ DASHBOARD_LINK = <<>>
    /\ pc = "pure"
    /\ today = <<>>
    /\ body = <<>>
    /\ got = <<>>
    /\ created = <<>>
    /\ stdout = <<>>
    /\ stderr = <<>>
    /\ exit_code = <<>>
    /\ period_end = <<>>
    /\ history = <<>>

program == <<argv_mode, argv_today, clock, environ, DASHBOARD_LINK, pc, today, body,
             got, created, stdout, stderr, exit_code, period_end, history>>

CallMonthEnd ==
    /\ call.fn = "is_two_days_before_month_end"
    /\ ret = <<>>
    /\ ret' = Some(is_two_days_before_month_end(call.today))
    /\ UNCHANGED <<call, program>>

CallQuarterEnd ==
    /\ call.fn = "is_one_week_before_quarter_end"
    /\ ret = <<>>
    /\ ret' = Some(is_one_week_before_quarter_end(call.today))
    /\ UNCHANGED <<call, program>>

CallBuildMessage ==
    /\ call.fn = "build_message"
    /\ ret = <<>>
    /\ ret' = Some(build_message(call.mode, call.today, call.excel_url))
    /\ UNCHANGED <<call, program>>

PureNext ==
    \/ CallMonthEnd
    \/ CallQuarterEnd
    \/ CallBuildMessage

PureSpec == PureInit /\ [][PureNext]_vars


(***************************************************************************)
(* Reference definitions for the properties: the calendar and the message  *)
(* layout, stated without the program's arithmetic.                        *)
(***************************************************************************)
LeapYear(y) == IF y % 400 = 0 THEN TRUE ELSE IF y % 100 = 0 THEN FALSE ELSE y % 4 = 0

LastDayOfMonth(y, m) ==
    IF m \in {4, 6, 9, 11} THEN 30
    ELSE IF m = 2 THEN (IF LeapYear(y) THEN 29 ELSE 28)
    ELSE 31

IsQuarterEnd(d) == <<d.month, d.day>> \in { <<3, 31>>, <<6, 30>>, <<9, 30>>, <<12, 31>> }

\* Whole days from d to the last day of the quarter that contains d.
RECURSIVE DaysToQuarterEnd(_)
DaysToQuarterEnd(d) == IF IsQuarterEnd(d) THEN 0 ELSE 1 + DaysToQuarterEnd(tomorrow(d))

\* text.split("\n")
RECURSIVE SplitLines(_)
SplitLines(text) ==
    IF \A i \in DOMAIN text : text[i] # NL THEN <<text>>
    ELSE LET k == CHOOSE i \in DOMAIN text :
                     text[i] = NL /\ \A j \in 1..(i - 1) : text[j] # NL
         IN  <<SubSeq(text, 1, k - 1)>> \o SplitLines(SubSeq(text, k + 1, Len(text)))

TitleCased(mode) ==
    CASE mode = WEEKLY    -> <<"W","e","e","k","l","y">>
      [] mode = MONTHLY   -> <<"M","o","n","t","h","l","y">>
      [] mode = QUARTERLY -> <<"Q","u","a","r","t","e","r","l","y">>

Digit(n) == Digits[n + 1]

\* YYYY-MM-DD, digit by digit.
IsoText(d) ==
    << Digit((d.year \div 1000) % 10), Digit((d.year \div 100) % 10),
       Digit((d.year \div 10) % 10), Digit(d.year % 10), "-",
       Digit(d.month \div 10), Digit(d.month % 10), "-",
       Digit(d.day \div 10), Digit(d.day % 10) >>

HeaderLine(mode, d) == <<HeaderOpen>> \o TitleCased(mode) \o <<HeaderClose>> \o IsoText(d)

BodyLines(mode) ==
    CASE mode = WEEKLY    -> WeeklyLines
      [] mode = MONTHLY   -> MonthlyLines
      [] mode = QUARTERLY -> QuarterlyLines

Returned(fn) == call.fn = fn /\ ret # <<>>

C2_FebruaryTwoDaysBefore ==
    (Returned("is_two_days_before_month_end") /\ call.today.month = 2) =>
        LET d == call.today
        IN  ret[1] = (d.day = LastDayOfMonth(d.year, 2) - 2)

\* C3: is_one_week_before_quarter_end(d) is true exactly when the last day of
\* the quarter containing d is 7 whole days after d, that is on Mar 24,
\* Jun 23, Sep 23 and Dec 24 of every year and on no other date.
C3_QuarterEndCheck ==
    Returned("is_one_week_before_quarter_end") =>
        LET d == call.today
        IN  /\ ret[1] = (DaysToQuarterEnd(d) = 7)
            /\ ret[1] = (<<d.month, d.day>> \in { <<3, 24>>, <<6, 23>>, <<9, 23>>, <<12, 24>> })

C3_Witness ==
    /\ Returned("is_one_week_before_quarter_end")
    /\ call.today = date(2024, 3, 24)
    /\ ret = Some(TRUE)

\* C9: build_message returns the header line (title-cased mode, date as
\* YYYY-MM-DD), the two body lines of the mode and the dashboard line with
\* the reference verbatim, in this order, joined by newlines: four lines,
\* none missing, also for the empty reference.
C9_MessageLayout ==
    Returned("build_message") =>
        LET out   == ret[1]
            lines == SplitLines(out)
            url   == call.excel_url
            head  == HeaderLine(call.mode, call.today)
            b1    == BodyLines(call.mode)[1]
            b2    == BodyLines(call.mode)[2]
            last  == <<DashboardPrefix>> \o url
        IN  /\ out = head \o <<NL>> \o b1 \o <<NL>> \o b2 \o <<NL>> \o last
            /\ Len(lines) = 3 + Len(SplitLines(url))
            /\ lines[1] = head /\ lines[2] = b1 /\ lines[3] = b2
            /\ SubSeq(out, Len(out) - Len(last) + 1, Len(out)) = last
            /\ (\A i \in DOMAIN url : url[i] # NL) => (Len(lines) = 4 /\ lines[4] = last)

C9_Witness ==
    /\ Returned("build_message")
    /\ call.mode = QUARTERLY
    /\ call.today = date(999, 2, 3)
    /\ call.excel_url = <<>>
    /\ Len(SplitLines(ret[1])) = 4
    /\ SplitLines(ret[1])[4] = <<DashboardPrefix>>

(***************************************************************************)
(* Properties of one invocation (Spec).                                    *)
(***************************************************************************)
\* The guardrail of main rejects the effective date.
GuardFails ==
    \/ argv_mode = MONTHLY /\ ~is_two_days_before_month_end(today[1])
    \/ argv_mode = QUARTERLY /\ ~is_one_week_before_quarter_end(today[1])

\* The effective date is the simulated date when one is given, else the
\* system date.
EffectiveDate ==
    IF Falsy(argv_today) THEN today[1] = clock ELSE IsoText(today[1]) = argv_today[1]

SkipNotices == { <<"Not 2 days before month-end; skipping.">>,
                 <<"Not 1 week before quarter-end; skipping.">> }

SkipNoticeOf(mode) ==
    IF mode = MONTHLY THEN <<"Not 2 days before month-end; skipping.">>
    ELSE <<"Not 1 week before quarter-end; skipping.">>

ErrorReported == \E i \in DOMAIN stderr : stderr[i][1] = "ERROR: "

MissingReported ==
    \E i \in DOMAIN stderr :
        /\ Len(stderr[i]) = 3
        /\ stderr[i][2] = "Missing environment variable: "

SendConfirmed == \E i \in DOMAIN stdout : stdout[i][1] = "Sent SMS SID: "

\* Every required variable is in the environment (possibly empty).
AllPresent == \A n \in Range(EnvNames) : environ[n] # <<>>

\* Every required variable is in the environment with a non-empty value.
AllSet == \A n \in Range(EnvNames) : environ[n] # <<>> /\ environ[n][1] # <<>>

SomeAbsent == \E n \in Range(EnvNames) : environ[n] = <<>>

SenderSucceeded == \A i \in DOMAIN history : history[i].sent

SenderFailed == \E i \in DOMAIN history : ~history[i].sent

\* C4: when the monthly or quarterly guardrail rejects the date, nothing is
\* built, no required variable is read, messages.create is never called, and
\* the process ends with status 0 after printing the skip notice, whatever
\* the environment holds.
C4_GuardrailSkip ==
    (today # <<>> /\ GuardFails) =>
        /\ pc \in {"guard", "done"}
        /\ body = <<>> /\ got = <<>> /\ created = <<>> /\ stderr = <<>>
        /\ pc = "done" => (exit_code = Some(0) /\ stdout = <<SkipNoticeOf(argv_mode)>>)

C4_Witness ==
    /\ pc = "done"
    /\ argv_mode = QUARTERLY
    /\ today = Some(date(2024, 6, 22))
    /\ environ["TO_PHONE"] = <<>>
    /\ exit_code = Some(0)
    /\ created = <<>>

\* C5 as claimed: messages.create is called at most once; when the guardrail
\* permits, all four required variables are present and the Sender succeeds,
\* the built message is handed to it exactly once, the body being
\* build_message(mode, effective date, dashboard reference), and the process
\* ends with status 0.
C5_SentOnceWhenPresent ==
    /\ Len(created) <= 1
    /\ created # <<>> => (body # <<>> /\ created[1].body = body[1])
    /\ (pc = "done" /\ today # <<>> /\ ~GuardFails /\ AllPresent /\ SenderSucceeded) =>
          /\ Len(created) = 1
          /\ EffectiveDate
          /\ created[1].body = build_message(argv_mode, today[1], DEFAULT_DASHBOARD)
          /\ exit_code = Some(0)

\* C5 as amended: the same, when the four required variables are present
\* with non-empty values.
C5_SentOnceWhenSet ==
    /\ Len(created) <= 1
    /\ created # <<>> => (body # <<>> /\ created[1].body = body[1])
    /\ (pc = "done" /\ today # <<>> /\ ~GuardFails /\ AllSet /\ SenderSucceeded) =>
          /\ Len(created) = 1
          /\ EffectiveDate
          /\ created[1].body = build_message(argv_mode, today[1], DEFAULT_DASHBOARD)
          /\ exit_code = Some(0)

C5_Witness ==
    /\ pc = "done"
    /\ argv_mode = MONTHLY
    /\ argv_today = Some(IsoText(date(2024, 4, 29)))
    /\ today = Some(date(2024, 4, 29))
    /\ AllSet
    /\ Len(created) = 1
    /\ SendConfirmed
    /\ exit_code = Some(0)

\* C6: when the guardrail permits and one of the four required variables is
\* absent, messages.create is never called and the process ends with an
\* "ERROR:" line and a nonzero status.
C6_MissingVariable ==
    (today # <<>> /\ ~GuardFails /\ SomeAbsent) =>
        /\ created = <<>>
        /\ pc = "done" =>
              /\ exit_code # <<>> /\ exit_code[1] # 0
              /\ ErrorReported /\ MissingReported
              /\ ~SendConfirmed

C6_Witness ==
    /\ pc = "done"
    /\ argv_mode = WEEKLY
    /\ environ["TWILIO_FROM"] = <<>>
    /\ Len(got) = 2
    /\ created = <<>>
    /\ exit_code = Some(1)

\* C7: when messages.create fails, the process reports the error and ends
\* with a nonzero status, prints no send confirmation, and the call is not
\* repeated.
C7_TransmissionError ==
    SenderFailed =>
        /\ Len(created) = 1
        /\ pc = "done"
        /\ exit_code # <<>> /\ exit_code[1] # 0
        /\ ErrorReported
        /\ ~SendConfirmed

C7_Witness ==
    /\ pc = "done"
    /\ SenderFailed
    /\ Len(created) = 1
    /\ exit_code = Some(1)

\* C8: in weekly mode no date is rejected: the invocation never prints a skip
\* notice, always goes on from the guardrail to build the message, and ends
\* only inside or after send_sms, which was handed the built message.
C8_WeeklyNeverSkips ==
    (argv_mode = WEEKLY /\ today # <<>>) =>
        /\ pc \in {"guard", "build", "send", "done"}
        /\ \A i \in DOMAIN stdout : stdout[i] \notin SkipNotices
        /\ pc \in {"send", "done"} =>
              body = Some(build_message(WEEKLY, today[1], DEFAULT_DASHBOARD))
        /\ pc = "done" => (created # <<>> \/ MissingReported)

C8_Witness ==
    /\ argv_mode = WEEKLY
    /\ today = Some(date(2024, 6, 12))
    /\ pc = "done"
    /\ Len(created) = 1
    /\ created[1].body = body[1]

(***************************************************************************)
(* Property of the scheduled runs (SchedSpec).                             *)
(***************************************************************************)
PeriodOver == pc = "done" /\ clock = period_end[1]

\* C10 as claimed: started once on every day of a month in monthly mode, or
\* of a quarter in quarterly mode, with the configuration present and the
\* Sender succeeding, the program calls messages.create on exactly one day.
C10_OneSendPerPeriodWhenPresent ==
    (AllPresent /\ SenderSucceeded) =>
        /\ Len(history) <= 1
        /\ PeriodOver => Len(history) = 1

\* C10 as amended: the same, when the configuration is present with
\* non-empty values.
C10_OneSendPerPeriodWhenSet ==
    (AllSet /\ SenderSucceeded) =>
        /\ Len(history) <= 1
        /\ PeriodOver => Len(history) = 1

C10_Witness ==
    /\ PeriodOver
    /\ argv_mode = QUARTERLY
    /\ AllSet
    /\ history = <<[day |-> date(2024, 12, 24), sent |-> TRUE]>>
    /\ clock = date(2024, 12, 31)

=============================================================================
